---- MODULE Spec2Model ----
(***************************************************************************)
(* plex-linker: the filename classifier (TvFormat and its subclasses,      *)
(* Show) and the Linker (make_links, delete_broken_links) of               *)
(* src/plex_linker/app.py.                                                 *)
(*                                                                         *)
(* A string is a sequence of one-character strings, so that the regular    *)
(* expressions, str.replace, str.format and os.path.join are computed      *)
(* character by character.                                                 *)
(***************************************************************************)
EXTENDS Integers, Sequences, FiniteSets, TLC

VARIABLES
    showPc, showName, showFormat, showPlexDir, showPlexName,
    pc, srcFiles, tgt, tgtDirs, makeTodo, deleteTodo, err, events, tgt0, dirs0

showVars == <<showPc, showName, showFormat, showPlexDir, showPlexName>>
linkVars == <<pc, srcFiles, tgt, tgtDirs, makeTodo, deleteTodo, err, events, tgt0, dirs0>>
vars == <<showPc, showName, showFormat, showPlexDir, showPlexName,
          pc, srcFiles, tgt, tgtDirs, makeTodo, deleteTodo, err, events, tgt0, dirs0>>

(***************************************************************************)
(* Bounds                                                                  *)
(***************************************************************************)
\* A classified title is made of at most MaxSegs segments joined by ".".
MaxSegs == 5
\* At most MaxOps operations (runs of the Linker, changes of the source tree).
MaxOps == 3

(***************************************************************************)
(* Strings                                                                 *)
(***************************************************************************)
Max(S) == CHOOSE x \in S : \A y \in S : y <= x
Min(S) == CHOOSE x \in S : \A y \in S : x <= y

Digits == {"0", "1", "2", "3", "4", "5", "6", "7", "8", "9"}
UpperCase == <<"A", "B", "C", "D", "E", "F", "G", "H", "I", "J", "K", "L", "M",
               "N", "O", "P", "Q", "R", "S", "T", "U", "V", "W", "X", "Y", "Z">>
LowerCase == <<"a", "b", "c", "d", "e", "f", "g", "h", "i", "j", "k", "l", "m",
               "n", "o", "p", "q", "r", "s", "t", "u", "v", "w", "x", "y", "z">>

\* The case folding of re.IGNORECASE.
Lower(c) ==
    IF \E k \in 1..26 : UpperCase[k] = c
    THEN LowerCase[CHOOSE k \in 1..26 : UpperCase[k] = c]
    ELSE c

\* A literal character of a pattern against a character of the title.
MatchLit(c, lit) == Lower(c) = Lower(lit)

\* `.` of a pattern (no re.DOTALL): any character but a line break.
AnyRun(s, a, b) == \A k \in a..b : s[k] # "\n"

\* `$` of a pattern (no re.MULTILINE): the end of the string, or just before
\* a line break that ends it.
AtEnd(s, j) == j = Len(s) + 1 \/ (j = Len(s) /\ s[j] = "\n")

\* `\..+$` from position i.
Rest(s, i) ==
    /\ i <= Len(s)
    /\ s[i] = "."
    /\ \E j \in (i + 2)..(Len(s) + 1) : AnyRun(s, i + 1, j - 1) /\ AtEnd(s, j)

\* `(\d+)` from position i: the last position of the longest run of digits
\* (i - 1 when there is none).
DigitsEnd(s, i) ==
    Max({i - 1} \cup {k \in i..Len(s) : \A m \in i..k : s[m] \in Digits})

\* `([^\.]+)` from position i: the last position of the longest run of
\* characters other than "." (i - 1 when there is none).
NonDotEnd(s, i) ==
    Max({i - 1} \cup {k \in i..Len(s) : \A m \in i..k : s[m] # "."})

\* `\d\d` and `\d\d\d\d` at positions a..b.
DigitsAt(s, a, b) == b <= Len(s) /\ \A k \in a..b : s[k] \in Digits

\* `^(.+)` ending right before position i.
NameBefore(s, i) == i >= 2 /\ AnyRun(s, 1, i - 1)

\* str.replace(old, new) for a one-character old.
Replace(s, old, new) == [k \in 1..Len(s) |-> IF s[k] = old THEN new ELSE s[k]]

\* Mutant: only "." and "-" are replaced.
put_whitespace_no_underscore(in_str) ==
    Replace(Replace(in_str, ".", " "), "-", " ")

put_whitespace(in_str) ==
    Replace(Replace(Replace(in_str, ".", " "), "-", " "), "_", " ")

\* os.path.join of two components (posixpath).
PathJoin(a, b) ==
    IF Len(b) > 0 /\ b[1] = "/" THEN b
    ELSE IF Len(a) = 0 \/ a[Len(a)] = "/" THEN a \o b
    ELSE a \o <<"/">> \o b

StrDash == <<" ", "-", " ">>
StrDashS == <<" ", "-", " ", "s">>
StrDashS01E == <<" ", "-", " ", "s", "0", "1", "e">>
StrSeason == <<"S", "e", "a", "s", "o", "n", " ">>
StrSeason01 == <<"S", "e", "a", "s", "o", "n", " ", "0", "1">>
StrUncategorized ==
    <<"U", "n", "c", "a", "t", "e", "g", "o", "r", "i", "z", "e", "d">>

(***************************************************************************)
(* The formats: title_format of each subclass of TvFormat, matched by      *)
(* re.search(title_format, title, re.IGNORECASE).  XxxAt(s, i) says that   *)
(* the pattern matches with its first `\.` at position i; the greedy       *)
(* `(.+)` makes re.search take the last such position.                     *)
(***************************************************************************)
\* Mutant: "^(.+)\.(\d\d\d\d)\.[^\.]+$", nothing but an extension after
\* the year.
SingleAtExtensionOnly(s, i) ==
    /\ NameBefore(s, i)
    /\ i <= Len(s)
    /\ s[i] = "."
    /\ DigitsAt(s, i + 1, i + 4)
    /\ Rest(s, i + 5)
    /\ \A k \in (i + 6)..Len(s) : s[k] # "."

\* "^(.+)\.(\d\d\d\d)\..+$"
SingleAt(s, i) ==
    /\ NameBefore(s, i)
    /\ i <= Len(s)
    /\ s[i] = "."
    /\ DigitsAt(s, i + 1, i + 4)
    /\ Rest(s, i + 5)

\* "^(.+)\.S(\d+)E([^\.]+)\..+$"; d is where `(\d+)` ends, e where
\* `([^\.]+)` does.
EpisodeFrom(s, d, e) == e >= d + 2 /\ Rest(s, e + 1)

WeeklyFrom(s, i, d) ==
    /\ d >= i + 2
    /\ d + 1 <= Len(s)
    /\ MatchLit(s[d + 1], "E")
    /\ EpisodeFrom(s, d, NonDotEnd(s, d + 2))

WeeklyAt(s, i) ==
    /\ NameBefore(s, i)
    /\ i + 1 <= Len(s)
    /\ s[i] = "."
    /\ MatchLit(s[i + 1], "S")
    /\ WeeklyFrom(s, i, DigitsEnd(s, i + 2))

\* "^(.+)\.Part\.([^\.]+)\..+$"; e is where `([^\.]+)` ends.
PartFrom(s, i, e) == e >= i + 6 /\ Rest(s, e + 1)

MiniAt(s, i) ==
    /\ NameBefore(s, i)
    /\ i + 5 <= Len(s)
    /\ s[i] = "."
    /\ MatchLit(s[i + 1], "P")
    /\ MatchLit(s[i + 2], "a")
    /\ MatchLit(s[i + 3], "r")
    /\ MatchLit(s[i + 4], "t")
    /\ s[i + 5] = "."
    /\ PartFrom(s, i, NonDotEnd(s, i + 6))

\* "^(.+)\.(\d\d\d\d)\.(\d\d)\.(\d\d)\..+$"
DailyAt(s, i) ==
    /\ NameBefore(s, i)
    /\ i <= Len(s)
    /\ s[i] = "."
    /\ DigitsAt(s, i + 1, i + 4)
    /\ i + 5 <= Len(s)
    /\ s[i + 5] = "."
    /\ DigitsAt(s, i + 6, i + 7)
    /\ i + 8 <= Len(s)
    /\ s[i + 8] = "."
    /\ DigitsAt(s, i + 9, i + 10)
    /\ Rest(s, i + 11)

\* re.search(cls.title_format, title, re.IGNORECASE): the positions of the
\* first `\.` of the pattern in its matches.
WeeklyMatches(title) == {i \in 1..Len(title) : WeeklyAt(title, i)}
MiniMatches(title) == {i \in 1..Len(title) : MiniAt(title, i)}
DailyMatches(title) == {i \in 1..Len(title) : DailyAt(title, i)}
SingleMatches(title) == {i \in 1..Len(title) : SingleAt(title, i)}

\* re.search(format.title_format, title, re.IGNORECASE) is not None; Other's
\* ".*" finds the empty match at the start of any string.
Search(format, title) ==
    CASE format = "Weekly" -> WeeklyMatches(title) # {}
      [] format = "Mini" -> MiniMatches(title) # {}
      [] format = "Daily" -> DailyMatches(title) # {}
      [] format = "Single" -> SingleMatches(title) # {}
      [] format = "Other" -> TRUE

\* Mutant: Single is tried before Daily.
formatsSingleFirst == <<"Weekly", "Mini", "Single", "Daily", "Other">>

\* TvFormat.get: formats = (Weekly, Mini, Daily, Single, Other)
formats == <<"Weekly", "Mini", "Daily", "Single", "Other">>

\* Mutant: the loop does not return at the first match, the last one wins.
LastFormat(hits) == IF hits = {} THEN "None" ELSE formats[Max(hits)]

\* The first of the formats at the positions `hits`, None when there is none.
FirstFormat(hits) == IF hits = {} THEN "None" ELSE formats[Min(hits)]

TvFormatGet(title) ==
    FirstFormat({k \in 1..Len(formats) : Search(formats[k], title)})

\* TvFormat.metadata: the groups of the match, by name.  The greedy `(.+)`
\* makes the match the one at the last position.
SingleGroups(title, i) ==
    [name |-> SubSeq(title, 1, i - 1), year |-> SubSeq(title, i + 1, i + 4)]

SingleMetadata(title) == SingleGroups(title, Max(SingleMatches(title)))

WeeklyGroupsFrom(title, i, d) ==
    [name |-> SubSeq(title, 1, i - 1),
     season |-> SubSeq(title, i + 2, d),
     episode |-> SubSeq(title, d + 2, NonDotEnd(title, d + 2))]

WeeklyGroups(title, i) == WeeklyGroupsFrom(title, i, DigitsEnd(title, i + 2))

WeeklyMetadata(title) == WeeklyGroups(title, Max(WeeklyMatches(title)))

MiniGroups(title, i) ==
    [name |-> SubSeq(title, 1, i - 1),
     part |-> SubSeq(title, i + 6, NonDotEnd(title, i + 6))]

MiniMetadata(title) == MiniGroups(title, Max(MiniMatches(title)))

DailyGroups(title, i) ==
    [name |-> SubSeq(title, 1, i - 1),
     year |-> SubSeq(title, i + 1, i + 4),
     month |-> SubSeq(title, i + 6, i + 7),
     day |-> SubSeq(title, i + 9, i + 10)]

DailyMetadata(title) == DailyGroups(title, Max(DailyMatches(title)))

\* The str.format of each plex_name and the os.path.join of each plex_dir,
\* on data = cls.metadata(title).
SingleName(data, title) ==
    put_whitespace(data.name) \o StrDash \o data.year \o StrDash \o title

SingleDir(data) == PathJoin(put_whitespace(data.name), put_whitespace(data.year))

WeeklyName(data, title) ==
    put_whitespace(data.name) \o StrDashS \o data.season \o <<"e">>
        \o data.episode \o StrDash \o title

WeeklyDir(data) == PathJoin(put_whitespace(data.name), StrSeason \o data.season)

MiniName(data, title) ==
    put_whitespace(data.name) \o StrDashS01E \o data.part \o StrDash \o title

MiniDir(data) == PathJoin(put_whitespace(data.name), StrSeason01)

DailyName(data, title) ==
    put_whitespace(data.name) \o StrDash \o data.year \o <<" ">> \o data.month
        \o <<" ">> \o data.day \o StrDash \o title

DailyDir(data) == PathJoin(put_whitespace(data.name), data.year)

SinglePlexName(title) == SingleName(SingleMetadata(title), title)
SinglePlexDir(title) == SingleDir(SingleMetadata(title))
WeeklyPlexName(title) == WeeklyName(WeeklyMetadata(title), title)
WeeklyPlexDir(title) == WeeklyDir(WeeklyMetadata(title))
MiniPlexName(title) == MiniName(MiniMetadata(title), title)
MiniPlexDir(title) == MiniDir(MiniMetadata(title))
DailyPlexName(title) == DailyName(DailyMetadata(title), title)
DailyPlexDir(title) == DailyDir(DailyMetadata(title))
OtherPlexName(title) == title
\* Mutant: plex_dir returns what dir returns, "Uncategorized".lower().
OtherPlexDirLower(title) == [k \in 1..Len(StrUncategorized) |-> Lower(StrUncategorized[k])]

OtherPlexDir(title) == StrUncategorized

\* cls.plex_name(title) and cls.plex_dir(title), dispatched on the class.
PlexName(format, title) ==
    CASE format = "Weekly" -> WeeklyPlexName(title)
      [] format = "Mini" -> MiniPlexName(title)
      [] format = "Daily" -> DailyPlexName(title)
      [] format = "Single" -> SinglePlexName(title)
      [] format = "Other" -> OtherPlexName(title)

PlexDir(format, title) ==
    CASE format = "Weekly" -> WeeklyPlexDir(title)
      [] format = "Mini" -> MiniPlexDir(title)
      [] format = "Daily" -> DailyPlexDir(title)
      [] format = "Single" -> SinglePlexDir(title)
      [] format = "Other" -> OtherPlexDir(title)

(***************************************************************************)
(* Show: the classification of one file name.  The titles classified are   *)
(* the segments below joined by ".", and the examples of the               *)
(* documentation.                                                          *)
(***************************************************************************)
SegName == <<"A", "-", "b", "_">>
SegEpisode == <<"s", "0", "2", "E", "0", "5">>
SegPart == <<"p", "A", "r", "t">>
SegYear == <<"2", "0", "2", "0">>
SegMonthDay == <<"0", "3", ".", "1", "5">>
SegNewline == <<"\n">>
SegEmpty == << >>
Segments ==
    {SegName, SegEpisode, SegPart, SegYear, SegMonthDay, SegNewline, SegEmpty}

ExampleWeekly ==
    <<"S", "h", "o", "w", ".", "N", "a", "m", "e", ".", "S", "0", "2", "E", "0", "5", ".", "D", "e", "s", "c", "r", "i", "p", "t", "i", "o", "n", ".", "m", "k", "v">>
ExampleDaily ==
    <<"D", "a", "i", "l", "y", ".", "S", "h", "o", "w", ".", "2", "0", "2", "0", ".", "0", "3", ".", "1", "5", ".", "m", "k", "v">>
ExampleOther ==
    <<"r", "a", "n", "d", "o", "m", "f", "i", "l", "e", ".", "t", "x", "t">>

RECURSIVE JoinDots(_)
JoinDots(q) ==
    IF Len(q) = 0 THEN << >>
    ELSE IF Len(q) = 1 THEN q[1]
    ELSE q[1] \o <<".">> \o JoinDots(Tail(q))

Titles ==
    {JoinDots(q) : q \in UNION {[1..n -> Segments] : n \in 0..MaxSegs}}
        \cup {ExampleWeekly, ExampleDaily, ExampleOther}

NoString == <<"?">>

ShowInitial ==
    /\ showPc = "new"
    /\ showName \in Titles
    /\ showFormat = "None"
    /\ showPlexDir = NoString
    /\ showPlexName = NoString

\* Show.__init__: self.format = TvFormat.get(self.name)
ShowInit ==
    /\ showPc = "new"
    /\ showFormat' = TvFormatGet(showName)
    /\ showPc' = "init"
    /\ UNCHANGED <<showName, showPlexDir, showPlexName>>

\* Show.plex_dir, as make_links calls it first
ShowPlexDir ==
    /\ showPc = "init"
    /\ showFormat # "None"
    /\ showPlexDir' = PlexDir(showFormat, showName)
    /\ showPc' = "dir"
    /\ UNCHANGED <<showName, showFormat, showPlexName>>

\* Show.plex_name, as make_links calls it next
ShowPlexName ==
    /\ showPc = "dir"
    /\ showPlexName' = PlexName(showFormat, showName)
    /\ showPc' = "name"
    /\ UNCHANGED <<showName, showFormat, showPlexDir>>

(***************************************************************************)
(* Linker.  The source tree is the set of files os.walk(source_dir)        *)
(* yields, each a record (path, name); the target tree maps every path a   *)
(* link can be made at to what is there.  An entry of the target tree is   *)
(* absent, a regular file, or a symbolic link with its value.              *)
(***************************************************************************)
source_dir == <<"s">>
target_dir == <<"t">>

SubDir == <<"d">>
SourceDirs == {source_dir, PathJoin(source_dir, SubDir)}

NameWeekly == <<"A", ".", "S", "1", "E", "2", ".", "m">>
NameOther == <<"x">>
FileNames == {NameWeekly, NameOther}

SourceFiles == [path : SourceDirs, name : FileNames]
NoFile == [path |-> << >>, name |-> << >>]

\* pathname = os.path.join(path, name)
Pathname(f) == PathJoin(f.path, f.name)

\* Show(name, path).plex_dir() and .plex_name()
ShowDir(name) == PlexDir(TvFormatGet(name), name)
ShowName(name) == PlexName(TvFormatGet(name), name)

\* plex_path = os.path.join(self.target_dir, show.plex_dir())
PlexPath(name) == PathJoin(target_dir, ShowDir(name))
\* plex_pathname = os.path.join(plex_path, plex_name)
PlexPathname(name) == PathJoin(PlexPath(name), ShowName(name))

TargetDirs == {PlexPath(n) : n \in FileNames}
TargetPaths == {PlexPathname(n) : n \in FileNames}

\* Paths outside both trees that a link found in the target tree may hold:
\* an existing file, and a path that does not exist.
ExtLive == <<"/", "L">>
ExtDead == <<"/", "D">>
\* A path below a source file: it resolves to nothing (ENOENT) when the
\* file is gone, and fails with ENOTDIR while the file exists.
Below(name) == PathJoin(PathJoin(source_dir, name), <<"z">>)

Absent == [kind |-> "absent", value |-> << >>]
RegularFile == [kind |-> "file", value |-> << >>]
Link(v) == [kind |-> "link", value |-> v]

\* os.path.dirname
\* os.path.dirname, i the position of the last "/" (0 when there is none);
\* no path here holds two "/" in a row.
DirnameAt(p, i) == IF i = 1 THEN <<"/">> ELSE SubSeq(p, 1, i - 1)

Dirname(p) == DirnameAt(p, Max({0} \cup {k \in 1..Len(p) : p[k] = "/"}))

\* os.stat of a path outside the target tree.
StatPath(files, v) ==
    IF v = ExtLive \/ \E f \in files : Pathname(f) = v THEN "OK"
    ELSE IF \E f \in files : Pathname(f) = Dirname(v) THEN "ENOTDIR"
    ELSE "ENOENT"

\* os.stat(pathname) of an entry of the target tree: links are followed.
Stat(files, entry) ==
    IF entry.kind = "link" THEN StatPath(files, entry.value) ELSE "OK"

\* What is at a directory path of the target tree: "dir" a directory, "none"
\* nothing, "file" a regular file, "parentfile" nothing, its parent being a
\* regular file.
\* os.makedirs(path): the error it raises, "OK" when it raises none.
Makedirs(kind) ==
    CASE kind = "none" -> "OK"
      [] kind = "dir" -> "EEXIST"
      [] kind = "file" -> "EEXIST"
      [] kind = "parentfile" -> "ENOTDIR"

\* create_path(path): the error that leaves it, "OK" when none does.
Raised(exception) ==
    IF exception # "OK" /\ exception # "EEXIST" THEN exception ELSE "OK"

create_path(kind) == Raised(Makedirs(kind))

\* The directory after create_path.
CreatedPath(kind) == IF Makedirs(kind) = "OK" THEN "dir" ELSE kind

\* os.symlink(pathname, plex_pathname): the error it raises.
Symlink(kind, entry) ==
    IF kind # "dir" THEN "ENOTDIR"
    ELSE IF entry.kind # "absent" THEN "EEXIST"
    ELSE "OK"

Event(op, f) == [op |-> op, file |-> f]

\* os.walk(top) is top-down: the files of source_dir come before those of
\* its subdirectory, in no particular order.
WalkNext(files) ==
    IF \E f \in files : f.path = source_dir
    THEN {f \in files : f.path = source_dir}
    ELSE files

\* The file entries os.walk(self.target_dir) yields.
TargetFiles(t, d) ==
    {p \in DOMAIN t : t[p].kind # "absent"}
        \cup {p \in DOMAIN d : d[p] = "file"}
        \cup {Dirname(p) : p \in {q \in DOMAIN d : d[q] = "parentfile"}}

\* What the target tree may hold before the first run.
InitialEntries(n) ==
    {Absent, RegularFile, Link(ExtLive), Link(ExtDead), Link(Below(n))}
        \cup {Link(Pathname(f)) : f \in {g \in SourceFiles : g.name = n}}

InitialDirKinds(n, entry) ==
    IF entry.kind # "absent" THEN {"dir"}
    ELSE IF Dirname(PlexPath(n)) = target_dir THEN {"none", "dir", "file"}
    ELSE {"none", "dir", "file", "parentfile"}

\* The target tree where the entry for each name n is e[n], in a directory
\* of kind k[n].
TreeOf(e) == {<<PlexPathname(n), e[n]>> : n \in FileNames}
DirsOf(k) == {<<PlexPath(n), k[n]>> : n \in FileNames}
AsFunction(pairs) ==
    [p \in {x[1] : x \in pairs} |-> (CHOOSE x \in pairs : x[1] = p)[2]]

LinkerInitial ==
    /\ pc = "idle"
    /\ srcFiles \in SUBSET SourceFiles
    /\ \E e \in [FileNames -> UNION {InitialEntries(n) : n \in FileNames}] :
         /\ \A n \in FileNames : e[n] \in InitialEntries(n)
         /\ tgt = AsFunction(TreeOf(e))
         /\ \E k \in [FileNames -> {"none", "dir", "file", "parentfile"}] :
              /\ \A n \in FileNames : k[n] \in InitialDirKinds(n, e[n])
              /\ tgtDirs = AsFunction(DirsOf(k))
    /\ makeTodo = {}
    /\ deleteTodo = {}
    /\ err = "none"
    /\ events = << >>
    /\ tgt0 = tgt
    /\ dirs0 = tgtDirs

\* Linker.make_links is called.
MakeLinksBegin ==
    /\ pc = "idle"
    /\ Len(events) < MaxOps
    /\ pc' = "make"
    /\ makeTodo' = srcFiles
    /\ err' = "none"
    /\ tgt0' = tgt
    /\ dirs0' = tgtDirs
    /\ UNCHANGED <<srcFiles, tgt, tgtDirs, deleteTodo, events>>

\* The error that leaves one pass of the loop of make_links, "OK" or
\* "EEXIST" when none does.
MakeLinkError(kind, entry) ==
    IF create_path(kind) # "OK" THEN create_path(kind)
    ELSE Symlink(CreatedPath(kind), entry)

\* Mutant: EEXIST is raised like any other error.
ToleratedNone(e) == e = "OK"

\* Mutant: every OSError is caught and dropped.
ToleratedAll(e) == TRUE

\* Whether make_links goes on to the next file after the error `e` of
\* os.symlink.
Tolerated(e) == e = "OK" \/ e = "EEXIST"

\* One pass of the loop of make_links, for the file f.
MakeLinkWith(f, plex_path, plex_pathname, e) ==
    /\ tgtDirs' = [tgtDirs EXCEPT ![plex_path] = CreatedPath(tgtDirs[plex_path])]
    /\ tgt' = IF e = "OK"
              THEN [tgt EXCEPT ![plex_pathname] = Link(Pathname(f))]
              ELSE tgt
    /\ IF Tolerated(e)
       THEN /\ makeTodo' = makeTodo \ {f}
            /\ UNCHANGED <<pc, err, events>>
       ELSE /\ makeTodo' = {}
            /\ pc' = "idle"
            /\ err' = e
            /\ events' = Append(events, Event("make_raised", f))

MakeLinkAt(f, plex_path, plex_pathname) ==
    MakeLinkWith(f, plex_path, plex_pathname,
                 MakeLinkError(tgtDirs[plex_path], tgt[plex_pathname]))

MakeLink(f) == MakeLinkAt(f, PlexPath(f.name), PlexPathname(f.name))

MakeLinksStep ==
    /\ pc = "make"
    /\ \E f \in WalkNext(makeTodo) : MakeLink(f)
    /\ UNCHANGED <<srcFiles, deleteTodo, tgt0, dirs0>>

\* make_links returns.
MakeLinksReturn ==
    /\ pc = "make"
    /\ makeTodo = {}
    /\ pc' = "idle"
    /\ events' = Append(events, Event("make", NoFile))
    /\ UNCHANGED <<srcFiles, tgt, tgtDirs, makeTodo, deleteTodo, err, tgt0, dirs0>>

\* Linker.delete_broken_links is called.
DeleteBrokenLinksBegin ==
    /\ pc = "idle"
    /\ Len(events) < MaxOps
    /\ pc' = "delete"
    /\ deleteTodo' = TargetFiles(tgt, tgtDirs)
    /\ err' = "none"
    /\ tgt0' = tgt
    /\ dirs0' = tgtDirs
    /\ UNCHANGED <<srcFiles, tgt, tgtDirs, makeTodo, events>>

\* Mutant: the entry is removed whatever the error of os.stat.
BrokenAnyError(e) == e # "OK"

\* Whether delete_broken_links removes the entry after the error `e` of
\* os.stat.
Broken(e) == e = "ENOENT"

\* One pass of the loop of delete_broken_links, for the entry at pathname.
DeleteBrokenLinkWith(pathname, e) ==
    IF e = "OK"
    THEN /\ deleteTodo' = deleteTodo \ {pathname}
         /\ UNCHANGED <<tgt, pc, err, events>>
    ELSE IF Broken(e)
    THEN /\ tgt' = [tgt EXCEPT ![pathname] = Absent]
         /\ deleteTodo' = deleteTodo \ {pathname}
         /\ UNCHANGED <<pc, err, events>>
    ELSE /\ deleteTodo' = {}
         /\ pc' = "idle"
         /\ err' = e
         /\ events' = Append(events, Event("delete_raised", NoFile))
         /\ UNCHANGED tgt

\* os.stat(pathname) of a file entry os.walk yielded: one of the entries of
\* tgt, or a regular file where a directory of the links would be.
StatEntry(pathname) ==
    IF pathname \in DOMAIN tgt THEN Stat(srcFiles, tgt[pathname]) ELSE "OK"

DeleteBrokenLink(pathname) == DeleteBrokenLinkWith(pathname, StatEntry(pathname))

DeleteBrokenLinksStep ==
    /\ pc = "delete"
    /\ \E pathname \in deleteTodo : DeleteBrokenLink(pathname)
    /\ UNCHANGED <<srcFiles, tgtDirs, makeTodo, tgt0, dirs0>>

\* delete_broken_links returns.
DeleteBrokenLinksReturn ==
    /\ pc = "delete"
    /\ deleteTodo = {}
    /\ pc' = "idle"
    /\ events' = Append(events, Event("delete", NoFile))
    /\ UNCHANGED <<srcFiles, tgt, tgtDirs, makeTodo, deleteTodo, err, tgt0, dirs0>>

\* Between two runs, a source file is deleted.
RemoveSourceFile ==
    /\ pc = "idle"
    /\ Len(events) < MaxOps
    /\ \E f \in srcFiles :
         /\ srcFiles' = srcFiles \ {f}
         /\ events' = Append(events, Event("rm", f))
    /\ UNCHANGED <<pc, tgt, tgtDirs, makeTodo, deleteTodo, err, tgt0, dirs0>>

(***************************************************************************)
(* Specifications                                                          *)
(***************************************************************************)
ShowIdle ==
    /\ showPc = "none"
    /\ showName = NoString
    /\ showFormat = "None"
    /\ showPlexDir = NoString
    /\ showPlexName = NoString

LinkerIdle ==
    /\ pc = "off"
    /\ srcFiles = {}
    /\ tgt = << >>
    /\ tgtDirs = << >>
    /\ makeTodo = {}
    /\ deleteTodo = {}
    /\ err = "none"
    /\ events = << >>
    /\ tgt0 = tgt
    /\ dirs0 = tgtDirs

Init == LinkerInitial /\ ShowIdle

Next ==
    \/ MakeLinksBegin /\ UNCHANGED showVars
    \/ MakeLinksStep /\ UNCHANGED showVars
    \/ MakeLinksReturn /\ UNCHANGED showVars
    \/ DeleteBrokenLinksBegin /\ UNCHANGED showVars
    \/ DeleteBrokenLinksStep /\ UNCHANGED showVars
    \/ DeleteBrokenLinksReturn /\ UNCHANGED showVars
    \/ RemoveSourceFile /\ UNCHANGED showVars

Spec == Init /\ [][Next]_vars

InitShow == ShowInitial /\ LinkerIdle

NextShow ==
    \/ ShowInit /\ UNCHANGED linkVars
    \/ ShowPlexDir /\ UNCHANGED linkVars
    \/ ShowPlexName /\ UNCHANGED linkVars

SpecShow == InitShow /\ [][NextShow]_vars

(***************************************************************************)
(* Classification: the shapes of file names the properties speak of, in    *)
(* their own words.                                                        *)
(***************************************************************************)
Classified == showPc \in {"init", "dir", "name"}
Derived == showPc = "name"

AllDigits(s, a, b) == b <= Len(s) /\ \A k \in a..b : s[k] \in Digits
NoLineBreak(s, a, b) == \A k \in a..b : s[k] # "\n"

\* NAME.YYYY.MM.DD.EXT with the "." before YYYY at i: NAME and EXT not empty.
DailyShapeAt(s, i) ==
    /\ i >= 2
    /\ Len(s) >= i + 12
    /\ s[i] = "."
    /\ AllDigits(s, i + 1, i + 4)
    /\ s[i + 5] = "."
    /\ AllDigits(s, i + 6, i + 7)
    /\ s[i + 8] = "."
    /\ AllDigits(s, i + 9, i + 10)
    /\ s[i + 11] = "."

DailyShape(s) == \E i \in 1..Len(s) : DailyShapeAt(s, i)

\* .MM.DD right after the year whose "." is at i.
MonthDayFollows(s, i) ==
    /\ Len(s) >= i + 10
    /\ s[i + 5] = "."
    /\ AllDigits(s, i + 6, i + 7)
    /\ s[i + 8] = "."
    /\ AllDigits(s, i + 9, i + 10)
    /\ (Len(s) = i + 10 \/ s[i + 11] = ".")

\* NAME.YYYY.EXT with the "." before YYYY at i, and no .MM.DD after the year.
SingleShapeAt(s, i) ==
    /\ i >= 2
    /\ Len(s) >= i + 6
    /\ s[i] = "."
    /\ AllDigits(s, i + 1, i + 4)
    /\ s[i + 5] = "."
    /\ ~MonthDayFollows(s, i)

SingleShape(s) == \E i \in 1..Len(s) : SingleShapeAt(s, i)

\* NAME.S<digits>E<non-dot-run>.EXT with the "." before S at i, the digits
\* ending at d and the run at e (S and E in either case).
WeeklyShapeAt(s, i, d, e) ==
    /\ i >= 2
    /\ i + 2 <= d
    /\ d + 2 <= e
    /\ e + 2 <= Len(s)
    /\ s[i] = "."
    /\ s[i + 1] \in {"S", "s"}
    /\ \A k \in (i + 2)..d : s[k] \in Digits
    /\ s[d + 1] \in {"E", "e"}
    /\ \A k \in (d + 2)..e : s[k] # "."
    /\ s[e + 1] = "."

MarkerAt(s, i) == i + 1 <= Len(s) /\ s[i] = "." /\ s[i + 1] \in {"S", "s"}

WeeklyParses(s) ==
    {q \in UNION {{i} \X ((i + 2)..Len(s)) \X ((i + 4)..Len(s)) :
                    i \in {j \in 1..Len(s) : MarkerAt(s, j)}} :
        WeeklyShapeAt(s, q[1], q[2], q[3])}

WeeklyShape(s) == WeeklyParses(s) # {}

\* The parses whose NAME and EXT hold no line break.
CleanWeeklyParses(s) ==
    {q \in WeeklyParses(s) :
        NoLineBreak(s, 1, q[1] - 1) /\ NoLineBreak(s, q[3] + 2, Len(s))}

\* NAME.Part.<non-dot-run>.EXT (Part in any case).
MiniShapeAt(s, i, e) ==
    /\ i >= 2
    /\ i + 6 <= e
    /\ e + 2 <= Len(s)
    /\ s[i] = "."
    /\ s[i + 1] \in {"P", "p"}
    /\ s[i + 2] \in {"A", "a"}
    /\ s[i + 3] \in {"R", "r"}
    /\ s[i + 4] \in {"T", "t"}
    /\ s[i + 5] = "."
    /\ \A k \in (i + 6)..e : s[k] # "."
    /\ s[e + 1] = "."

MiniShape(s) == \E i \in 1..Len(s) : \E e \in 1..Len(s) : MiniShapeAt(s, i, e)

\* Every ".", "-" and "_" replaced by a space.
Normalized(s) ==
    [k \in 1..Len(s) |-> IF s[k] \in {".", "-", "_"} THEN " " ELSE s[k]]

FixedOrder == <<"Weekly", "Mini", "Daily", "Single", "Other">>

\* C5: TvFormat.get returns a format for every title, the earliest in the
\* order Weekly, Mini, Daily, Single, Other whose pattern matches; Other
\* matches every title.
C5_TotalFirstMatch ==
    Classified =>
        /\ showFormat # "None"
        /\ \E k \in 1..5 :
             /\ showFormat = FixedOrder[k]
             /\ Search(FixedOrder[k], showName)
             /\ \A j \in 1..(k - 1) : ~Search(FixedOrder[j], showName)
        /\ Search("Other", showName)

\* C5 witness: Daily is returned for a title Single matches too.
C5_Witness ==
    /\ Classified
    /\ showFormat = "Daily"
    /\ Search("Single", showName)

\* C6 as stated: every title NAME.YYYY.MM.DD.EXT is classified Daily.
C6_DailyShapeIsDaily ==
    (Classified /\ DailyShape(showName)) => showFormat = "Daily"

\* C6 amended: a title NAME.YYYY.MM.DD.EXT that holds no line break is
\* classified Daily unless it also has the shape of Weekly or Mini, which
\* come first; it is never classified Single.
C6_DailyUnlessEarlier ==
    (Classified /\ DailyShape(showName) /\ NoLineBreak(showName, 1, Len(showName))) =>
        /\ showFormat # "Single"
        /\ (WeeklyShape(showName) \/ MiniShape(showName) \/ showFormat = "Daily")

\* C6 witness: a title of the shape, classified Daily.
C6_Witness ==
    /\ Classified
    /\ DailyShape(showName)
    /\ NoLineBreak(showName, 1, Len(showName))
    /\ showFormat = "Daily"

\* C7 as stated: every title NAME.YYYY.EXT with no .MM.DD after the year is
\* classified Single.
C7_SingleShapeIsSingle ==
    (Classified /\ SingleShape(showName)) => showFormat = "Single"

\* C7 amended: a title NAME.YYYY.EXT with no .MM.DD after the year that
\* holds no line break and has the shape of none of Weekly, Mini and Daily
\* is classified Single.
C7_SingleUnlessEarlier ==
    (/\ Classified
     /\ SingleShape(showName)
     /\ NoLineBreak(showName, 1, Len(showName))
     /\ ~WeeklyShape(showName)
     /\ ~MiniShape(showName)
     /\ ~DailyShape(showName)) => showFormat = "Single"

\* C7 witness: a title of the shape, classified Single.
C7_Witness ==
    /\ Classified
    /\ SingleShape(showName)
    /\ NoLineBreak(showName, 1, Len(showName))
    /\ showFormat = "Single"

\* The directory and the name the property gives for the parse q.
WeeklyDirOf(s, q) ==
    Normalized(SubSeq(s, 1, q[1] - 1)) \o <<"/">> \o StrSeason
        \o SubSeq(s, q[1] + 2, q[2])

WeeklyNameOf(s, q) ==
    Normalized(SubSeq(s, 1, q[1] - 1)) \o <<" ", "-", " ", "s">>
        \o SubSeq(s, q[1] + 2, q[2]) \o <<"e">> \o SubSeq(s, q[2] + 2, q[3])
        \o <<" ", "-", " ">> \o s

LastParse(parses) == CHOOSE q \in parses : \A r \in parses : r[1] <= q[1]

ExampleWeeklyDir ==
    <<"S", "h", "o", "w", " ", "N", "a", "m", "e", "/", "S", "e", "a", "s", "o", "n", " ", "0", "2">>
ExampleWeeklyName ==
    <<"S", "h", "o", "w", " ", "N", "a", "m", "e", " ", "-", " ", "s", "0", "2", "e", "0", "5", " ", "-", " ", "S", "h", "o", "w", ".", "N", "a", "m", "e", ".", "S", "0", "2", "E", "0", "5", ".", "D", "e", "s", "c", "r", "i", "p", "t", "i", "o", "n", ".", "m", "k", "v">>

\* C8 as stated: every title NAME.S<digits>E<non-dot-run>.EXT is classified
\* Weekly, with the directory and the name of one of its parses.
C8_WeeklyShapeIsWeekly ==
    (Derived /\ WeeklyShape(showName)) =>
        /\ showFormat = "Weekly"
        /\ \E q \in WeeklyParses(showName) :
             /\ showPlexDir = WeeklyDirOf(showName, q)
             /\ showPlexName = WeeklyNameOf(showName, q)

\* C8 amended: a title NAME.S<digits>E<non-dot-run>.EXT whose NAME and EXT
\* hold no line break is classified Weekly; its directory is
\* <normName>/Season <season> and its name
\* <normName> - s<season>e<episode> - <title>, for the last such parse of
\* the title.
C8_WeeklyDirAndName ==
    (Derived /\ CleanWeeklyParses(showName) # {}) =>
        /\ showFormat = "Weekly"
        /\ showPlexDir = WeeklyDirOf(showName, LastParse(CleanWeeklyParses(showName)))
        /\ showPlexName = WeeklyNameOf(showName, LastParse(CleanWeeklyParses(showName)))
        /\ (showName = ExampleWeekly =>
              showPlexDir = ExampleWeeklyDir /\ showPlexName = ExampleWeeklyName)

\* C8 witness: a title with two parses, a lower-case marker and a name that
\* holds the first parse and all three separators.
C8_Witness ==
    /\ Derived
    /\ showFormat = "Weekly"
    /\ Cardinality(CleanWeeklyParses(showName)) = 2
    /\ \E k \in 1..Len(showName) : showName[k] = "_"
    /\ \E k \in 1..Len(showPlexDir) : showPlexDir[k] = "E"

\* C9: a title that matches none of the Weekly, Mini, Daily and Single
\* patterns is classified Other, its directory is Uncategorized and its name
\* the title itself.
C9_FallbackUnchanged ==
    (/\ Derived
     /\ ~Search("Weekly", showName)
     /\ ~Search("Mini", showName)
     /\ ~Search("Daily", showName)
     /\ ~Search("Single", showName)) =>
        /\ showFormat = "Other"
        /\ showPlexDir = <<"U", "n", "c", "a", "t", "e", "g", "o", "r", "i", "z", "e", "d">>
        /\ showPlexName = showName

\* C9 witness: a title with no "." and no extension.
C9_Witness ==
    /\ Derived
    /\ showFormat = "Other"
    /\ showName = SegName

(***************************************************************************)
(* Linker: the properties of make_links and delete_broken_links.  tgt0 is  *)
(* the target tree when the run in progress, or the last one, began.       *)
(***************************************************************************)
\* The operations ended so far, the last one first.
Ended(n) == Len(events) >= n
Last(n) == events[Len(events) + 1 - n]
Returned(op) == pc = "idle" /\ Ended(1) /\ Last(1).op = op

\* The path the link of a source file belongs at, in the words of the
\* properties: target_dir/plex_dir(basename)/plex_name(basename).
LinkPath(f) ==
    target_dir \o <<"/">> \o PlexDir(TvFormatGet(f.name), f.name) \o <<"/">>
        \o PlexName(TvFormatGet(f.name), f.name)

\* The source path of a file.
SourcePath(f) == f.path \o <<"/">> \o f.name

IsLinkTo(entry, f) == entry.kind = "link" /\ entry.value = SourcePath(f)

\* The value of a link resolves to an existing file.
Resolves(entry) ==
    \/ entry.value = ExtLive
    \/ \E f \in srcFiles : entry.value = SourcePath(f)

\* C1 as stated: once make_links has returned, every source file has, at
\* target_dir/plex_dir/plex_name, a link whose value is its own path.
\* (Already so when the target tree held no entry as make_links began.)
C1_EverySourceFileLinked ==
    (/\ Returned("make")
     /\ \A p \in DOMAIN tgt0 : tgt0[p].kind = "absent"
     /\ \A p \in DOMAIN dirs0 : dirs0[p] \in {"none", "dir"}) =>
        \A f \in srcFiles : IsLinkTo(tgt[LinkPath(f)], f)

\* C2: a run of make_links that follows a run that returned, the source tree
\* unchanged, returns too, and the target tree stays all along what it was
\* when the run began.
C2_MakeLinksIdempotent ==
    /\ (Ended(1) /\ Last(1).op = "make" /\ pc = "make") => tgt = tgt0
    /\ (Ended(2) /\ Last(2).op = "make" /\ pc = "idle"
            /\ Last(1).op \in {"make", "make_raised"}) =>
           (/\ Last(1).op = "make"
            /\ tgt = tgt0
            /\ tgtDirs = dirs0)

\* C2 witness: two runs in a row have returned, the first of which made a
\* link.
C2_Witness ==
    /\ pc = "idle"
    /\ Ended(2)
    /\ Last(1).op = "make"
    /\ Last(2).op = "make"
    /\ Len(events) = 2
    /\ \E f \in srcFiles : IsLinkTo(tgt[LinkPath(f)], f)
    /\ \E p \in DOMAIN tgt : tgt[p].kind = "link" /\ ~Resolves(tgt[p])

\* The target tree holds nothing but links make_links makes for the files.
OnlyLinksOf(t, files) ==
    \A p \in DOMAIN t :
        t[p].kind # "absent" => \E f \in files : LinkPath(f) = p /\ IsLinkTo(t[p], f)

\* C3 as stated: make_links returns, a source file f is deleted, and
\* delete_broken_links returns: the link of f, and nothing else, is gone
\* from the target tree, and every other source file still has its link.
\* (The target tree held, before delete_broken_links, only links to the
\* source files.)
C3_RoundTrip ==
    (/\ pc = "idle"
     /\ Ended(3)
     /\ Last(3).op = "make"
     /\ Last(2).op = "rm"
     /\ Last(1).op = "delete"
     /\ OnlyLinksOf(tgt0, srcFiles \cup {Last(2).file})) =>
        /\ {p \in DOMAIN tgt : tgt[p] # tgt0[p]} = {LinkPath(Last(2).file)}
        /\ tgt[LinkPath(Last(2).file)].kind = "absent"
        /\ \A g \in srcFiles : IsLinkTo(tgt[LinkPath(g)], g)

\* C4: delete_broken_links removes an entry of the target tree exactly when
\* os.stat of it fails because what it refers to does not exist; an entry
\* that resolves stays as it was, and once delete_broken_links has returned
\* every link left resolves.
C4_DeletesExactlyBroken ==
    /\ (pc = "delete" \/ Returned("delete") \/ Returned("delete_raised")) =>
           \A p \in DOMAIN tgt :
               /\ (tgt[p] # tgt0[p]) =>
                      (/\ tgt[p].kind = "absent"
                       /\ tgt0[p].kind = "link"
                       /\ StatPath(srcFiles, tgt0[p].value) = "ENOENT")
               /\ (tgt0[p].kind = "link" /\ Resolves(tgt0[p])) => (tgt[p] = tgt0[p])
    /\ Returned("delete") =>
           \A p \in DOMAIN tgt :
               /\ (tgt[p].kind = "link") => Resolves(tgt[p])
               /\ (tgt0[p].kind = "link" /\ ~Resolves(tgt0[p])) => (tgt[p].kind = "absent")

\* C4 witness: delete_broken_links has returned, having removed a link and
\* left another.
C4_Witness ==
    /\ Returned("delete")
    /\ \E p \in DOMAIN tgt : tgt0[p].kind = "link" /\ tgt[p].kind = "absent"
    /\ \E p \in DOMAIN tgt : tgt[p].kind = "link"

\* The error of making the link of f in the target tree as it is.
LinkError(f) ==
    IF tgtDirs[PlexPath(f.name)] = "parentfile" THEN "ENOTDIR"
    ELSE IF tgtDirs[PlexPath(f.name)] = "file" THEN "ENOTDIR"
    ELSE IF tgt[LinkPath(f)].kind # "absent" THEN "EEXIST"
    ELSE "OK"

\* C10 for one pass of the loop of make_links, over the file f.
FailFastStep(f) ==
    CASE LinkError(f) = "OK" ->
           /\ pc' = "make"
           /\ makeTodo' = makeTodo \ {f}
           /\ tgt' = [tgt EXCEPT ![LinkPath(f)] = Link(SourcePath(f))]
           /\ events' = events
      [] LinkError(f) = "EEXIST" ->
           /\ pc' = "make"
           /\ makeTodo' = makeTodo \ {f}
           /\ tgt' = tgt
           /\ events' = events
      [] OTHER ->
           /\ pc' = "idle"
           /\ err' = LinkError(f)
           /\ makeTodo' = {}
           /\ tgt' = tgt
           /\ events' = Append(events, [op |-> "make_raised", file |-> f])

\* C10: when making the link of a file fails with an error other than
\* EEXIST, make_links ends there with that error: no other file is taken
\* up, and the links made before stay; on EEXIST it goes on with the next
\* file, the target tree unchanged.
C10_FailFast ==
    [][(pc = "make" /\ makeTodo # {}) => \E f \in makeTodo : FailFastStep(f)]_vars

\* C10 witness: make_links has ended with ENOTDIR after it made a link,
\* which is still there, with a source file not taken up.
C10_Witness ==
    /\ Returned("make_raised")
    /\ err = "ENOTDIR"
    /\ \E p \in DOMAIN tgt : tgt[p] # tgt0[p] /\ tgt[p].kind = "link"
    /\ \E f \in srcFiles : f # Last(1).file /\ tgt[LinkPath(f)].kind = "absent"

====
